---- MODULE Spec2Model ----
(***************************************************************************)
(* Model of vin-iso3779-validator (src/src/index.ts): the normalizer, the  *)
(* ISO 3779 check-digit calculator, the validator and its two wrappers.    *)
(* A string is a sequence of one-character strings.  The library holds no  *)
(* state of its own; the state of the model is the caller's: the raw input *)
(* it has built, the operation it called last and what that call returned  *)
(* or threw.                                                               *)
(***************************************************************************)
EXTENDS Integers, Sequences, FiniteSets, TLC

VARIABLES input, stage, base, op, ret

vars == <<input, stage, base, op, ret>>

(***************************************************************************)
(* Characters                                                              *)
(***************************************************************************)
Digits == <<"0", "1", "2", "3", "4", "5", "6", "7", "8", "9">>

Upper == <<"A", "B", "C", "D", "E", "F", "G", "H", "I", "J", "K", "L", "M",
           "N", "O", "P", "Q", "R", "S", "T", "U", "V", "W", "X", "Y", "Z">>

Lower == <<"a", "b", "c", "d", "e", "f", "g", "h", "i", "j", "k", "l", "m",
           "n", "o", "p", "q", "r", "s", "t", "u", "v", "w", "x", "y", "z">>

SeqRange(s) == {s[i] : i \in 1..Len(s)}

\* The characters \s matches (and trim() strips) among those of the model.
Whitespace == {" ", "\t"}

\* Characters that are neither separators nor ASCII letters or digits:
\* punctuation, a non-ASCII letter with a one-character upper case, and
\* one whose upper case is two characters.
Others == {"_", "*", "e'", "E'", "ss"}

Chars == SeqRange(Digits) \cup SeqRange(Upper) \cup SeqRange(Lower)
            \cup Whitespace \cup {"-"} \cup Others

\* v[i] of a JavaScript string when i is past its end.
Undefined == "undefined"

IndexOf(s, c) == CHOOSE i \in 1..Len(s) : s[i] = c

\* The characters from..to of a regular-expression class range.
ClassRange(s, from, to) == {s[i] : i \in IndexOf(s, from)..IndexOf(s, to)}

(***************************************************************************)
(* Constants of the library                                                *)
(***************************************************************************)
VIN_LENGTH == 17

\* /^[A-HJ-NPR-Z0-9]{17}$/ : the character class ...
VIN_REGEX_CLASS ==
    ClassRange(Upper, "A", "H") \cup ClassRange(Upper, "J", "N") \cup {"P"}
        \cup ClassRange(Upper, "R", "Z") \cup ClassRange(Digits, "0", "9")

\* ... and the anchored match of exactly 17 of them.
VIN_REGEX_test(s) ==
    /\ Len(s) = 17
    /\ \A i \in 1..Len(s) : s[i] \in VIN_REGEX_CLASS

\* Mutation: position 9 carries weight 1 instead of 0.
WEIGHTS_NinthCounts == <<8, 7, 6, 5, 4, 3, 2, 10, 1, 9, 8, 7, 6, 5, 4, 3, 2>>

WEIGHTS == <<8, 7, 6, 5, 4, 3, 2, 10, 0, 9, 8, 7, 6, 5, 4, 3, 2>>

\* Mutation: the table lacks the key Z.
MAP_WithoutZ ==
    ("0" :> 0) @@ ("1" :> 1) @@ ("2" :> 2) @@ ("3" :> 3) @@ ("4" :> 4) @@
    ("5" :> 5) @@ ("6" :> 6) @@ ("7" :> 7) @@ ("8" :> 8) @@ ("9" :> 9) @@
    ("A" :> 1) @@ ("B" :> 2) @@ ("C" :> 3) @@ ("D" :> 4) @@ ("E" :> 5) @@
    ("F" :> 6) @@ ("G" :> 7) @@ ("H" :> 8) @@
    ("J" :> 1) @@ ("K" :> 2) @@ ("L" :> 3) @@ ("M" :> 4) @@ ("N" :> 5) @@
    ("P" :> 7) @@ ("R" :> 9) @@
    ("S" :> 2) @@ ("T" :> 3) @@ ("U" :> 4) @@ ("V" :> 5) @@ ("W" :> 6) @@
    ("X" :> 7) @@ ("Y" :> 8)

MAP ==
    ("0" :> 0) @@ ("1" :> 1) @@ ("2" :> 2) @@ ("3" :> 3) @@ ("4" :> 4) @@
    ("5" :> 5) @@ ("6" :> 6) @@ ("7" :> 7) @@ ("8" :> 8) @@ ("9" :> 9) @@
    ("A" :> 1) @@ ("B" :> 2) @@ ("C" :> 3) @@ ("D" :> 4) @@ ("E" :> 5) @@
    ("F" :> 6) @@ ("G" :> 7) @@ ("H" :> 8) @@
    ("J" :> 1) @@ ("K" :> 2) @@ ("L" :> 3) @@ ("M" :> 4) @@ ("N" :> 5) @@
    ("P" :> 7) @@ ("R" :> 9) @@
    ("S" :> 2) @@ ("T" :> 3) @@ ("U" :> 4) @@ ("V" :> 5) @@ ("W" :> 6) @@
    ("X" :> 7) @@ ("Y" :> 8) @@ ("Z" :> 9)

(***************************************************************************)
(* String primitives of the runtime                                        *)
(***************************************************************************)
\* String.prototype.toUpperCase on one character: a sequence, since the
\* upper case of a character may be longer than the character.
UpperOfChar(c) ==
    IF c \in SeqRange(Lower) THEN <<Upper[IndexOf(Lower, c)]>>
    ELSE IF c = "e'" THEN <<"E'">>
    ELSE IF c = "ss" THEN <<"S", "S">>
    ELSE <<c>>

RECURSIVE ToUpperCase(_)
ToUpperCase(s) ==
    IF s = <<>> THEN <<>> ELSE UpperOfChar(Head(s)) \o ToUpperCase(Tail(s))

\* Mutation: the regular expression without its g flag replaces the first
\* run only.
RECURSIVE ReplaceFirstRun(_)
ReplaceFirstRun(s) ==
    IF s = <<>> THEN <<>>
    ELSE IF Head(s) \in Whitespace \cup {"-"}
    THEN IF Tail(s) # <<>> /\ Head(Tail(s)) \in Whitespace \cup {"-"}
         THEN ReplaceFirstRun(Tail(s)) ELSE Tail(s)
    ELSE <<Head(s)>> \o ReplaceFirstRun(Tail(s))

\* s.replace(/[\s-]+/g, ""): every maximal run of whitespace and hyphens
\* is replaced by the empty string.
RECURSIVE ReplaceRuns(_)
ReplaceRuns(s) ==
    IF s = <<>> THEN <<>>
    ELSE IF Head(s) \in Whitespace \cup {"-"} THEN ReplaceRuns(Tail(s))
    ELSE <<Head(s)>> \o ReplaceRuns(Tail(s))

RECURSIVE TrimStart(_)
TrimStart(s) ==
    IF s # <<>> /\ Head(s) \in Whitespace THEN TrimStart(Tail(s)) ELSE s

RECURSIVE TrimEnd(_)
TrimEnd(s) ==
    IF s # <<>> /\ s[Len(s)] \in Whitespace
    THEN TrimEnd(SubSeq(s, 1, Len(s) - 1)) ELSE s

Trim(s) == TrimEnd(TrimStart(s))

\* String(n) for the remainders 0..10.
String(n) == IF n < 10 THEN Digits[n + 1] ELSE "10"

\* errors.join(sep), as the sequence of its pieces.
RECURSIVE Join(_, _)
Join(xs, sep) ==
    IF xs = <<>> THEN <<>>
    ELSE IF Len(xs) = 1 THEN xs
    ELSE <<Head(xs), sep>> \o Join(Tail(xs), sep)

\* v[i], 0-based as in the source.
At(v, i) == IF i + 1 <= Len(v) THEN v[i + 1] ELSE Undefined

\* Outcomes of a call: a returned value or a thrown Error with its message
\* (the message as the sequence of its pieces).
Return(x) == [threw |-> FALSE, value |-> x, message |-> <<>>]

Throw(msg) == [threw |-> TRUE, value |-> <<>>, message |-> msg]

(***************************************************************************)
(* The library                                                             *)
(***************************************************************************)
normalizeVIN(s) == ToUpperCase(Trim(ReplaceRuns(s)))

\* Mutation: the remainder 10 is not turned into X.
RemainderDigit_NoX(sum) == String(sum % 11)

\* The last two lines of computeCheckDigit: the check digit of a sum.
RemainderDigit(sum) ==
    LET remainder == sum % 11
    IN  IF remainder = 10 THEN "X" ELSE String(remainder)

\* The loop of computeCheckDigit from index i with the sum so far.
RECURSIVE CheckDigitLoop(_, _, _)
CheckDigitLoop(v, i, sum) ==
    IF i < VIN_LENGTH
    THEN LET ch == At(v, i)
         IN  IF ch \notin DOMAIN MAP
             THEN Throw(<<"Invalid character '", ch, "' at position ", ToString(i + 1)>>)
             ELSE CheckDigitLoop(v, i + 1, sum + MAP[ch] * WEIGHTS[i + 1])
    ELSE Return(RemainderDigit(sum))

\* Mutation: the argument is not uppercased.
computeCheckDigit_NoUpper(vin) == CheckDigitLoop(vin, 0, 0)

computeCheckDigit(vin) == CheckDigitLoop(ToUpperCase(vin), 0, 0)

\* Mutation: the 9th character is never compared with the expected digit.
TryBlock_NoCompare(vin) ==
    IF Len(vin) = VIN_LENGTH
    THEN LET r == computeCheckDigit(vin)
         IN  IF r.threw THEN r
             ELSE Return([expected |-> r.value, pushed |-> <<>>])
    ELSE Return([expected |-> "N/A", pushed |-> <<>>])

\* The try block of validateVIN: the expected digit and the error it adds,
\* or the exception of computeCheckDigit passing through it.
TryBlock(vin) ==
    IF Len(vin) = VIN_LENGTH
    THEN LET r == computeCheckDigit(vin)
         IN  IF r.threw THEN r
             ELSE Return([expected |-> r.value,
                          pushed |-> IF VIN_REGEX_test(vin) /\ At(vin, 8) # r.value
                                     THEN <<"INVALID_CHECK_DIGIT">> ELSE <<>>])
    ELSE Return([expected |-> "N/A", pushed |-> <<>>])

\* Mutation: no catch clause, the exception leaves validateVIN.
TryCatch_Rethrow(vin) == TryBlock(vin)

\* try { ... } catch { }: the exception is swallowed, expected stays "N/A".
TryCatch(vin) ==
    LET t == TryBlock(vin)
    IN  IF t.threw THEN Return([expected |-> "N/A", pushed |-> <<>>]) ELSE t

\* Mutation: the charset check runs before the length check.
StructuralErrors_Swapped(vin) ==
    LET e1 == IF Len(vin) # VIN_LENGTH THEN <<"INVALID_LENGTH">> ELSE <<>>
        e2 == IF ~VIN_REGEX_test(vin) THEN <<"INVALID_CHARACTERS">> ELSE <<>>
    IN  e2 \o e1

\* The two structural checks, each pushing its code onto errors.
StructuralErrors(vin) ==
    LET e1 == IF Len(vin) # VIN_LENGTH THEN <<"INVALID_LENGTH">> ELSE <<>>
        e2 == IF ~VIN_REGEX_test(vin) THEN <<"INVALID_CHARACTERS">> ELSE <<>>
    IN  e1 \o e2

validateVIN(s) ==
    LET vin == normalizeVIN(s)
        t   == TryCatch(vin)
    IN  IF t.threw THEN t
        ELSE LET errors == StructuralErrors(vin) \o t.value.pushed
             IN  Return([isValid |-> errors = <<>>,
                         vin |-> vin,
                         errors |-> errors,
                         checkDigit |-> IF At(vin, 8) = Undefined THEN ""
                                        ELSE At(vin, 8),
                         expectedCheckDigit |-> t.value.expected])

isValidVIN(s) ==
    LET res == validateVIN(s)
    IN  IF res.threw THEN res ELSE Return(res.value.isValid)

\* Mutation: the input is returned as given instead of res.vin.
assertVIN_ReturnsInput(s) ==
    LET res == validateVIN(s)
    IN  IF res.threw THEN res
        ELSE IF ~res.value.isValid
        THEN Throw(<<"Invalid VIN: ">> \o Join(res.value.errors, ", ")
                     \o <<" (expected check digit: ",
                          res.value.expectedCheckDigit, ")">>)
        ELSE Return(s)

assertVIN(s) ==
    LET res == validateVIN(s)
    IN  IF res.threw THEN res
        ELSE IF ~res.value.isValid
        THEN Throw(<<"Invalid VIN: ">> \o Join(res.value.errors, ", ")
                     \o <<" (expected check digit: ",
                          res.value.expectedCheckDigit, ")">>)
        ELSE Return(res.value.vin)

(***************************************************************************)
(* The caller: how raw inputs come about                                   *)
(***************************************************************************)
\* Number of trailing characters a caller may leave out.
MaxDrop == 2

\* Number of characters a caller may type too many.
MaxExtra == 1

\* Separators are typed before the first MaxSepPos + 1 characters or at
\* the end.
MaxSepPos == 0

\* The valid VINs of index.test.ts.
VALID_VINS == {
    <<"1", "H", "G", "C", "M", "8", "2", "6", "3", "3", "A", "0", "0", "4", "3", "5", "2">>,
    <<"1", "M", "8", "G", "D", "M", "9", "A", "X", "K", "P", "0", "4", "2", "7", "8", "8">>,
    <<"J", "H", "M", "C", "M", "5", "6", "5", "5", "7", "C", "4", "0", "4", "4", "5", "3">>}

\* The other inputs of the normalizeVIN test.
OTHER_INPUTS == {
    <<>>,
    <<" ", " ">>,
    <<"A", "B", "C", "-", "1", "2", "3">>,
    <<" ", " ", " ", "a", "b", "c", " ", " ", " ", "d", "e", "f", " ", " ", " ">>,
    <<"a", "-", "b", "-", "c", "-", "d", "-", "e", "-", "f", "-", "g">>}

ExtraChars == {"0", " "}

\* The characters a caller mistypes: every digit and upper-case letter, some
\* lower-case letters, the separators and the other characters.
SubstChars ==
    SeqRange(Digits) \cup SeqRange(Upper) \cup {"a", "i", "x"}
        \cup Whitespace \cup {"-"} \cup Others

\* README, VIN Format Rules: upper-case A-Z excluding I, O, Q, and digits.
PermittedChars == (SeqRange(Upper) \ {"I", "O", "Q"}) \cup SeqRange(Digits)

Separators == {" ", "\t", "-"}

LowerOfChar(c) ==
    IF c \in SeqRange(Upper) THEN Lower[IndexOf(Upper, c)] ELSE c

ToLowerCase(s) == [i \in 1..Len(s) |-> LowerOfChar(s[i])]

RECURSIVE Repeat(_, _)
Repeat(c, k) == IF k = 0 THEN <<>> ELSE <<c>> \o Repeat(c, k - 1)

InsertAt(s, p, c) == SubSeq(s, 1, p) \o <<c>> \o SubSeq(s, p + 1, Len(s))

Init ==
    /\ input \in VALID_VINS \cup OTHER_INPUTS
    /\ stage = 0
    /\ base = <<>>
    /\ op = "idle"
    /\ ret = Return(<<>>)

\* One character is mistyped.
Subst(p, c) ==
    /\ op = "idle" /\ stage = 0
    /\ p \in 1..Len(input)
    /\ input[p] # c
    /\ input' = [input EXCEPT ![p] = c]
    /\ stage' = 1
    /\ UNCHANGED <<base, op, ret>>

\* Trailing characters are left out.
Drop(k) ==
    /\ op = "idle" /\ stage <= 1
    /\ k <= Len(input)
    /\ input' = SubSeq(input, 1, Len(input) - k)
    /\ stage' = 2
    /\ UNCHANGED <<base, op, ret>>

\* Characters are typed after the end.
Extend(k, c) ==
    /\ op = "idle" /\ stage <= 1
    /\ input' = input \o Repeat(c, k)
    /\ stage' = 2
    /\ UNCHANGED <<base, op, ret>>

\* A separator is typed into the input.
InsertSep(p, c) ==
    /\ op = "idle" /\ stage <= 1
    /\ p <= Len(input)
    /\ input' = InsertAt(input, p, c)
    /\ stage' = 2
    /\ UNCHANGED <<base, op, ret>>

\* The input is typed in lower case.
TypeLower ==
    /\ op = "idle" /\ stage <= 1
    /\ ToLowerCase(input) # input
    /\ input' = ToLowerCase(input)
    /\ stage' = 2
    /\ UNCHANGED <<base, op, ret>>

\* The 9th character of a VIN that validated is replaced by another
\* permitted character, and the result becomes the next input.
Corrupt9(c) ==
    /\ op = "validateVIN" /\ ~ret.threw /\ ret.value.isValid
    /\ base = <<>>
    /\ c # ret.value.vin[9]
    /\ input' = [ret.value.vin EXCEPT ![9] = c]
    /\ base' = ret.value.vin
    /\ stage' = 2
    /\ op' = "idle"
    /\ ret' = Return(<<>>)

Call(name, result) ==
    /\ op = "idle"
    /\ op' = name
    /\ ret' = result
    /\ UNCHANGED <<input, stage, base>>

CallNormalizeVIN == Call("normalizeVIN", Return(normalizeVIN(input)))

CallComputeCheckDigit == Call("computeCheckDigit", computeCheckDigit(input))

CallValidateVIN == Call("validateVIN", validateVIN(input))

CallIsValidVIN == Call("isValidVIN", isValidVIN(input))

CallAssertVIN == Call("assertVIN", assertVIN(input))

Next ==
    \/ \E p \in 1..VIN_LENGTH, c \in SubstChars : Subst(p, c)
    \/ \E k \in 1..MaxDrop : Drop(k)
    \/ \E k \in 1..MaxExtra, c \in ExtraChars : Extend(k, c)
    \/ \E p \in 0..MaxSepPos, c \in Separators : InsertSep(p, c)
    \/ \E c \in Separators : InsertSep(Len(input), c)
    \/ TypeLower
    \/ \E c \in PermittedChars : Corrupt9(c)
    \/ CallNormalizeVIN
    \/ CallComputeCheckDigit
    \/ CallValidateVIN
    \/ CallIsValidVIN
    \/ CallAssertVIN

Spec == Init /\ [][Next]_vars

(***************************************************************************)
(* Properties                                                              *)
(***************************************************************************)
SeparatorChars == Whitespace \cup {"-"}

LowercaseLetters == SeqRange(Lower) \cup {"e'", "ss"}

IsKept(c) == c \notin SeparatorChars

ErrorOrder == <<"INVALID_LENGTH", "INVALID_CHARACTERS", "INVALID_CHECK_DIGIT">>

\* The weights as claim C3 lists them.
ListedWeights == <<8, 7, 6, 5, 4, 3, 2, 10, 0, 9, 8, 7, 6, 5, 4, 3, 2>>

\* Sum over positions 1..n of transliteration value times listed weight.
RECURSIVE WeightedSum(_, _)
WeightedSum(v, n) ==
    IF n = 0 THEN 0 ELSE WeightedSum(v, n - 1) + MAP[v[n]] * ListedWeights[n]

Min(S) == CHOOSE x \in S : \A y \in S : x <= y

\* The rule of claim C1 on a normalized candidate.
ValidByRule(n) ==
    /\ Len(n) = 17
    /\ \A i \in 1..Len(n) : n[i] \in PermittedChars
    /\ LET c == computeCheckDigit(n) IN ~c.threw /\ n[9] = c.value

\* C1: validateVIN(x).isValid is true if and only if normalizeVIN(x) has
\* length 17, every character of it is in the permitted 33-character
\* alphabet and its 9th character equals computeCheckDigit of it; the result
\* is valid if and only if its errors are empty.
C1_ValidIffRule ==
    op = "validateVIN" =>
        /\ ~ret.threw
        /\ ret.value.isValid <=> ValidByRule(normalizeVIN(input))
        /\ ret.value.isValid <=> (ret.value.errors = <<>>)

C1_Witness ==
    /\ op = "validateVIN" /\ ~ret.threw
    /\ ret.value.isValid
    /\ input # normalizeVIN(input)

\* C2: validateVIN and isValidVIN never throw, whatever the input; the
\* exception of computeCheckDigit on a candidate with a forbidden character
\* does not reach their caller, and validateVIN returns a ValidationResult.
C2_Total ==
    /\ op \in {"validateVIN", "isValidVIN"} => ~ret.threw
    /\ op = "validateVIN" =>
          DOMAIN ret.value =
              {"isValid", "vin", "errors", "checkDigit", "expectedCheckDigit"}
    /\ op = "isValidVIN" => ret.value \in BOOLEAN

C2_Witness ==
    /\ op = "isValidVIN" /\ ~ret.threw
    /\ Len(normalizeVIN(input)) = VIN_LENGTH
    /\ computeCheckDigit(normalizeVIN(input)).threw

\* C3: on a 17-character string of permitted characters computeCheckDigit
\* does not throw and returns one character: X when the weighted sum of the
\* transliteration values is 10 modulo 11, else the digit of that remainder.
C3_CheckDigitValue ==
    (/\ op = "computeCheckDigit"
     /\ Len(input) = 17
     /\ \A i \in 1..Len(input) : input[i] \in PermittedChars)
    => /\ ~ret.threw
       /\ ret.value \in SeqRange(Digits) \cup {"X"}
       /\ LET r == WeightedSum(input, 17) % 11
          IN  ret.value = IF r = 10 THEN "X" ELSE Digits[r + 1]

C3_Witness ==
    /\ op = "computeCheckDigit" /\ ~ret.threw
    /\ Len(input) = 17
    /\ \A i \in 1..Len(input) : input[i] \in PermittedChars
    /\ ret.value = "X"

\* C4 as claimed: computeCheckDigit on a 17-character string throws if and
\* only if some character of the string as given is not a key of the
\* transliteration table, and the message names the leftmost such character
\* and its 1-based position.
C4_AsClaimed ==
    (op = "computeCheckDigit" /\ Len(input) = 17) =>
        LET bad == {i \in 1..17 : input[i] \notin DOMAIN MAP}
        IN  /\ ret.threw <=> bad # {}
            /\ ret.threw =>
                  /\ ret.message[2] = input[Min(bad)]
                  /\ ret.message[4] = ToString(Min(bad))

\* C4 amended: computeCheckDigit uppercases its argument (and removes
\* nothing): on a 17-character string it throws if and only if one of the
\* first 17 characters of the uppercased string is not a key of the table,
\* and the message names the leftmost such uppercased character and its
\* 1-based position.
C4_Uppercased ==
    (op = "computeCheckDigit" /\ Len(input) = 17) =>
        LET v   == ToUpperCase(input)
            bad == {i \in 1..17 : v[i] \notin DOMAIN MAP}
        IN  /\ ret.threw <=> bad # {}
            /\ ret.threw =>
                  /\ ret.message[2] = v[Min(bad)]
                  /\ ret.message[4] = ToString(Min(bad))

C4_Witness ==
    /\ op = "computeCheckDigit" /\ Len(input) = 17
    /\ ret.threw
    /\ ret.message[2] \notin SeqRange(input)

\* C5: normalizeVIN never throws and its result is in normal form: no
\* whitespace, no hyphen, no lowercase letter; it is the input with every
\* whitespace and hyphen removed and the rest uppercased; normalizing it
\* again changes nothing; the empty string maps to the empty string.
C5_NormalForm ==
    op = "normalizeVIN" =>
        /\ ~ret.threw
        /\ SeqRange(ret.value) \cap (SeparatorChars \cup LowercaseLetters) = {}
        /\ ret.value = ToUpperCase(SelectSeq(input, IsKept))
        /\ normalizeVIN(ret.value) = ret.value
        /\ input = <<>> => ret.value = <<>>

C5_Witness ==
    /\ op = "normalizeVIN" /\ ~ret.threw
    /\ SeqRange(input) \cap SeparatorChars # {}
    /\ SeqRange(input) \cap LowercaseLetters # {}
    /\ Len(ret.value) > 0

\* C6: assertVIN throws if and only if isValidVIN returns false for the
\* same input; the message of the error holds every code of
\* validateVIN(input).errors and the expected check digit; when it does not
\* throw it returns normalizeVIN(input).
C6_AssertAgrees ==
    op = "assertVIN" =>
        LET res == validateVIN(input).value
        IN  /\ ret.threw <=> ~isValidVIN(input).value
            /\ ret.threw =>
                  /\ \A i \in 1..Len(res.errors) :
                        res.errors[i] \in SeqRange(ret.message)
                  /\ res.expectedCheckDigit \in SeqRange(ret.message)
            /\ ~ret.threw => ret.value = normalizeVIN(input)

C6_Witness ==
    /\ op = "assertVIN" /\ ret.threw
    /\ Len(validateVIN(input).value.errors) = 2

\* C7 as claimed: INVALID_CHARACTERS is recorded if and only if the
\* normalized candidate holds at least one forbidden character, whatever its
\* length, and INVALID_LENGTH if and only if its length is not 17.
C7_AsClaimed ==
    (op = "validateVIN" /\ ~ret.threw) =>
        LET n == normalizeVIN(input)
        IN  /\ ("INVALID_CHARACTERS" \in SeqRange(ret.value.errors))
                  <=> (\E i \in 1..Len(n) : n[i] \notin PermittedChars)
            /\ ("INVALID_LENGTH" \in SeqRange(ret.value.errors))
                  <=> (Len(n) # 17)

\* C8: the errors of a result hold each code at most once, in the order
\* INVALID_LENGTH, INVALID_CHARACTERS, INVALID_CHECK_DIGIT.
C8_ErrorOrder ==
    (op = "validateVIN" /\ ~ret.threw) =>
        LET e == ret.value.errors
        IN  /\ SeqRange(e) \subseteq SeqRange(ErrorOrder)
            /\ \A i, j \in 1..Len(e) :
                  i < j => IndexOf(ErrorOrder, e[i]) < IndexOf(ErrorOrder, e[j])

C8_Witness ==
    /\ op = "validateVIN" /\ ~ret.threw
    /\ Len(ret.value.errors) = 2

\* C9: a valid VIN whose 9th character is replaced by another permitted
\* character validates to exactly [INVALID_CHECK_DIGIT], with checkDigit the
\* new character and expectedCheckDigit the 9th character of the valid VIN:
\* the check digit does not depend on the 9th character.
C9_NinthReplaced ==
    (op = "validateVIN" /\ base # <<>>) =>
        /\ ~ret.threw
        /\ input[9] # base[9]
        /\ ret.value.errors = <<"INVALID_CHECK_DIGIT">>
        /\ ret.value.checkDigit = input[9]
        /\ ret.value.expectedCheckDigit = base[9]
        /\ computeCheckDigit(input) = computeCheckDigit(base)

C9_Witness ==
    /\ op = "validateVIN" /\ base # <<>> /\ ~ret.threw
    /\ base[9] = "X"
    /\ ret.value.checkDigit = "0"

\* C10: expectedCheckDigit is "N/A" exactly when the normalized length is
\* not 17 or computeCheckDigit throws on the normalized candidate, else it is
\* computeCheckDigit of the candidate; when the calculator throws on a
\* 17-character candidate INVALID_CHARACTERS is recorded (the keys of the
\* table are the characters the charset rule accepts), so a result with
\* "N/A" is never valid; checkDigit is the 9th character of the candidate,
\* or empty when the candidate has fewer than 9 characters.
C10_Sentinel ==
    op = "validateVIN" =>
        LET n == normalizeVIN(input)
            c == computeCheckDigit(n)
            r == ret.value
        IN  /\ ~ret.threw
            /\ (r.expectedCheckDigit = "N/A") <=> (Len(n) # 17 \/ c.threw)
            /\ r.expectedCheckDigit # "N/A" => r.expectedCheckDigit = c.value
            /\ (Len(n) = 17 /\ c.threw) =>
                  "INVALID_CHARACTERS" \in SeqRange(r.errors)
            /\ DOMAIN MAP = VIN_REGEX_CLASS
            /\ r.expectedCheckDigit = "N/A" => ~r.isValid
            /\ r.checkDigit = IF Len(n) < 9 THEN "" ELSE n[9]

C10_Witness ==
    /\ op = "validateVIN" /\ ~ret.threw
    /\ Len(normalizeVIN(input)) = 17
    /\ computeCheckDigit(normalizeVIN(input)).threw
    /\ ret.value.expectedCheckDigit = "N/A"
    /\ ret.value.checkDigit # ""

====
